---- MODULE Spec2Model ----
(***************************************************************************)
(* The read path of the ledger (vm/compiler/src/ledger/get.rs): the block  *)
(* and field accessors over the four height-indexed stores, and the scan   *)
(* of the output records that belong to a view key.                        *)
(*                                                                         *)
(* Two specifications share the variables.  SpecLedger draws the stores,   *)
(* the height and the cached hash from bounded sets and applies the        *)
(* accessors; SpecScan draws the transition history and the spend index    *)
(* and runs get_output_records candidate by candidate.                     *)
(***************************************************************************)
EXTENDS Integers, Sequences, FiniteSets, TLC

(***************************************************************************)
(* Bounds of the model.                                                    *)
(***************************************************************************)
\* The largest height (the keys of the stores and the heights asked for).
MaxHeight == 2
\* The largest number of transitions of a history.
MaxTransitions == 2
\* The largest number of output records of a history, all transitions together.
MaxOutputs == 2

Heights == 0..MaxHeight

VARIABLES
    previous_hashes,   \* Map<u32, N::BlockHash>
    headers,           \* Map<u32, Header<N>>
    transactions,      \* Map<u32, Transactions<N>>
    signatures,        \* Map<u32, Signature<N>>
    current_height,    \* the height of the latest block
    current_hash,      \* the cached hash of the latest block
    ret,               \* the last accessor call and what it returned
    history,           \* the transitions of the ledger, in storage order
    serial_numbers,    \* the serial numbers recorded as spent
    tags,              \* the tags recorded as spent
    scan               \* the iterator get_output_records returned

ledger_vars == <<previous_hashes, headers, transactions, signatures,
                 current_height, current_hash>>
world_vars == <<history, serial_numbers, tags>>
vars == <<ledger_vars, ret, world_vars, scan>>

(***************************************************************************)
(* Values.  Option<T> is a sequence of length 0 (None) or 1 (Some); a      *)
(* Result is <<"Ok", v>> or <<"Err", message, subject>>.                   *)
(***************************************************************************)
None == <<>>
Some(v) == <<v>>
Option(S) == {None} \cup {Some(v) : v \in S}
Ok(v) == <<"Ok", v>>
Bail(msg, subject) == <<"Err", msg, subject>>
IsOk(r) == r[1] = "Ok"
IsErr(r) == r[1] = "Err"

\* The block hashes of the model: the hash the previous-hash store may hold at
\* a key, and the cached hash of the latest block (block hashes are collision
\* resistant: the latest block's hash is not the hash of a block before it).
StoredHashes == {"hA"}
CachedHashes == {"hB"}
\* The header, transactions and signature written for the block of height h.
Header(h) == <<"header", h>>
Transactions(h) == <<"transactions", h>>
Signature(h) == <<"signature", h>>

\* Map::get: the point lookup of a height-indexed store.
StoreGet(map, key) == IF key \in DOMAIN map THEN map[key] ELSE None

\* Block::from: assembles the four parts into a block.
BlockFrom(previous_hash, header, txs, signature) ==
    Ok([previous_hash |-> previous_hash, header |-> header,
        transactions |-> txs, signature |-> signature])

(***************************************************************************)
(* The accessors.                                                          *)
(***************************************************************************)
get_previous_hash(height) ==
    LET entry == StoreGet(previous_hashes, height)
    IN  IF entry # None THEN Ok(entry[1])
        ELSE Bail("Missing previous block hash for block", height)

get_header(height) ==
    LET entry == StoreGet(headers, height)
    IN  IF entry # None THEN Ok(entry[1])
        ELSE Bail("Missing block header for block", height)

get_transactions(height) ==
    LET entry == StoreGet(transactions, height)
    IN  IF entry # None THEN Ok(entry[1])
        ELSE Bail("Missing block transactions for block", height)

get_signature_wrong_field(height) ==
    LET entry == StoreGet(signatures, height)
    IN  IF entry # None THEN Ok(entry[1])
        ELSE Bail("Missing block transactions for block", height)

get_signature(height) ==
    LET entry == StoreGet(signatures, height)
    IN  IF entry # None THEN Ok(entry[1])
        ELSE Bail("Missing signature for block", height)

get_hash_own_key(height) ==
    IF height = current_height THEN Ok(current_hash)
    ELSE IF height < current_height
    THEN LET entry == StoreGet(previous_hashes, height)
         IN  IF entry # None THEN Ok(entry[1])
             ELSE Bail("Missing block hash for block", height)
    ELSE Bail("Block (given) is greater than the current height", height)

get_hash_no_range_check(height) ==
    IF height = current_height THEN Ok(current_hash)
    ELSE LET entry == StoreGet(previous_hashes, height + 1)
         IN  IF entry # None THEN Ok(entry[1])
             ELSE Bail("Missing block hash for block", height)

get_hash(height) ==
    IF height = current_height THEN Ok(current_hash)
    ELSE IF height < current_height
    THEN LET entry == StoreGet(previous_hashes, height + 1)
         IN  IF entry # None THEN Ok(entry[1])
             ELSE Bail("Missing block hash for block", height)
    ELSE Bail("Block (given) is greater than the current height", height)

\* The four `?` of get_block: the first failing accessor's error is returned.
get_block_own_hash(height) ==
    LET p == get_hash(height)
        h == get_header(height)
        t == get_transactions(height)
        s == get_signature(height)
    IN  IF IsErr(p) THEN p
        ELSE IF IsErr(h) THEN h
        ELSE IF IsErr(t) THEN t
        ELSE IF IsErr(s) THEN s
        ELSE BlockFrom(p[2], h[2], t[2], s[2])

get_block(height) ==
    LET p == get_previous_hash(height)
        h == get_header(height)
        t == get_transactions(height)
        s == get_signature(height)
    IN  IF IsErr(p) THEN p
        ELSE IF IsErr(h) THEN h
        ELSE IF IsErr(t) THEN t
        ELSE IF IsErr(s) THEN s
        ELSE BlockFrom(p[2], h[2], t[2], s[2])

\* The genesis block, and the ledger Ledger::new() builds from it.
GenesisBlock ==
    [previous_hash |-> "hA", header |-> Header(0),
     transactions |-> Transactions(0), signature |-> Signature(0)]
GenesisHash == "hB"
FreshLedger ==
    /\ previous_hashes = [h \in Heights |-> IF h = 0 THEN Some(GenesisBlock.previous_hash) ELSE None]
    /\ headers = [h \in Heights |-> IF h = 0 THEN Some(GenesisBlock.header) ELSE None]
    /\ transactions = [h \in Heights |-> IF h = 0 THEN Some(GenesisBlock.transactions) ELSE None]
    /\ signatures = [h \in Heights |-> IF h = 0 THEN Some(GenesisBlock.signature) ELSE None]
    /\ current_height = 0
    /\ current_hash = GenesisHash

(***************************************************************************)
(* Keys, records and the cryptographic primitives the scan consumes.       *)
(* A primitive is a fixed, deterministic, fallible function: its value is  *)
(* the term it computes, and it fails on the inputs listed as malformed.   *)
(***************************************************************************)
Accounts == {"a1", "a2"}
\* The account whose private key and graph key the filters carry; the view key
\* that scans is any account's.
FilterAccounts == {"a1"}
ViewKey(account) == <<"view_key", account>>
PrivateKey(account) == <<"private_key", account>>
GraphKey(account) == <<"graph_key", account>>
graph_key_of(private_key) == GraphKey(private_key[2])
to_address(view_key) == <<"address", view_key[2]>>
sk_sig(private_key) == <<"sk_sig", private_key[2]>>
sk_tag(graph_key) == <<"sk_tag", graph_key[2]>>

Commitments == {"c1", "c2", "c3"}
\* The commitments on which HashToGroup, respectively the tag hash, fails.
GroupHashFails == {"c2"}
TagHashFails == {"c3"}

\* An encrypted record: the address it is bound to, and whether its
\* ciphertext decrypts.
Records == [owner : {to_address(ViewKey(a)) : a \in Accounts}, sound : BOOLEAN]
is_owner(record, address, view_key) == record.owner = address
decrypt(record, view_key) ==
    IF record.sound THEN Ok(<<"plaintext", record>>)
    ELSE Bail("Failed to decrypt output record", record)

serial_number_domain == "SerialNumber"
hash_to_group_psd2(input) ==
    IF input[2] \in GroupHashFails THEN Bail("hash_to_group_psd2", input)
    ELSE Ok(<<"group", input>>)
hash_to_scalar_psd2(input) == Ok(<<"scalar", input>>)
commit_bhp512(message, randomness) == Ok(<<"commitment", message, randomness>>)
hash_psd2(input) ==
    IF input[2] \in TagHashFails THEN Bail("hash_psd2", input)
    ELSE Ok(<<"field", input>>)

\* The closure `tag`: the tag of a commitment under sk_tag.
tag(sk_tag_x, commitment) == hash_psd2(<<sk_tag_x, commitment>>)

\* The closure `serial_number`: the serial number of a commitment under a
\* private key; each `?` returns the primitive's error.
serial_number(private_key, commitment) ==
    LET h == hash_to_group_psd2(<<serial_number_domain, commitment>>)
    IN  IF IsErr(h) THEN h
        ELSE LET gamma == <<"mul", h[2], sk_sig(private_key)>>
                 sn_nonce == hash_to_scalar_psd2(
                     <<serial_number_domain, <<"x", <<"mul_by_cofactor", gamma>>>>>>)
             IN  IF IsErr(sn_nonce) THEN sn_nonce
                 ELSE commit_bhp512(<<serial_number_domain, commitment>>, sn_nonce[2])

\* The spend index.
contains_serial_number(sn) == sn \in serial_numbers
contains_tag(t) == t \in tags

\* The serial numbers and tags the spend index may hold: a record is spent by
\* a transition input that carries both its serial number and its tag, so
\* only a commitment that has both is ever recorded, under either scheme.
Spendable == Commitments \ (GroupHashFails \cup TagHashFails)
SerialNumberUniverse ==
    {serial_number(PrivateKey(a), c)[2] : a \in FilterAccounts, c \in Spendable}
TagUniverse ==
    {tag(sk_tag(GraphKey(a)), c)[2] : a \in FilterAccounts, c \in Spendable}

\* OutputRecordsFilter.
Filters ==
    {<<"All">>}
    \cup {<<kind, PrivateKey(a)>> : kind \in {"AllSpent", "AllUnspent"}, a \in FilterAccounts}
    \cup {<<kind, GraphKey(a)>> : kind \in {"Spent", "Unspent"}, a \in FilterAccounts}

(***************************************************************************)
(* get_output_records.                                                     *)
(***************************************************************************)
\* Transition::output_records: the (commitment, record) pairs of a transition.
output_records(transition) == transition.outputs

\* The flat_map over the transitions: CowTupleIter yields each transition's
\* pairs in their order, borrowed or owned alike, transitions in their order.
RECURSIVE flat_map_reversed(_)
flat_map_reversed(transitions) ==
    IF transitions = <<>> THEN <<>>
    ELSE flat_map_reversed(Tail(transitions)) \o output_records(Head(transitions))

RECURSIVE flat_map_outputs(_)
flat_map_outputs(transitions) ==
    IF transitions = <<>> THEN <<>>
    ELSE output_records(Head(transitions)) \o flat_map_outputs(Tail(transitions))

\* The match on the filter: Some(commitment) for a candidate to decrypt, None
\* for one the closure returns None on.
Classify_unspent_keeps_spent(filter, commitment) ==
    CASE filter[1] = "All" -> Some(commitment)
      [] filter[1] \in {"AllSpent", "AllUnspent"} ->
            LET sn == serial_number(filter[2], commitment)
            IN  IF IsOk(sn) /\ contains_serial_number(sn[2]) THEN Some(commitment) ELSE None
      [] filter[1] \in {"Spent", "Unspent"} ->
            LET t == tag(sk_tag(filter[2]), commitment)
            IN  IF IsOk(t) /\ (contains_tag(t[2]) <=> filter[1] = "Spent")
                THEN Some(commitment) ELSE None

Classify_error_is_unspent(filter, commitment) ==
    CASE filter[1] = "All" -> Some(commitment)
      [] filter[1] \in {"AllSpent", "AllUnspent"} ->
            LET sn == serial_number(filter[2], commitment)
            IN  IF IsOk(sn)
                THEN IF contains_serial_number(sn[2]) <=> filter[1] = "AllSpent"
                     THEN Some(commitment) ELSE None
                ELSE IF filter[1] = "AllUnspent" THEN Some(commitment) ELSE None
      [] filter[1] \in {"Spent", "Unspent"} ->
            LET t == tag(sk_tag(filter[2]), commitment)
            IN  IF IsOk(t)
                THEN IF contains_tag(t[2]) <=> filter[1] = "Spent"
                     THEN Some(commitment) ELSE None
                ELSE IF filter[1] = "Unspent" THEN Some(commitment) ELSE None

Classify_tag_by_serial_number(filter, commitment) ==
    CASE filter[1] = "All" -> Some(commitment)
      [] filter[1] \in {"AllSpent", "AllUnspent"} ->
            LET sn == serial_number(filter[2], commitment)
            IN  IF IsOk(sn) /\ (contains_serial_number(sn[2]) <=> filter[1] = "AllSpent")
                THEN Some(commitment) ELSE None
      [] filter[1] \in {"Spent", "Unspent"} ->
            LET t == tag(sk_tag(filter[2]), commitment)
            IN  IF IsOk(t) /\ (contains_serial_number(t[2]) <=> filter[1] = "Spent")
                THEN Some(commitment) ELSE None

Classify(filter, commitment) ==
    CASE filter[1] = "All" -> Some(commitment)
      [] filter[1] = "AllSpent" ->
            LET sn == serial_number(filter[2], commitment)
            IN  IF IsOk(sn)
                THEN IF contains_serial_number(sn[2]) THEN Some(commitment) ELSE None
                ELSE None
      [] filter[1] = "AllUnspent" ->
            LET sn == serial_number(filter[2], commitment)
            IN  IF IsOk(sn)
                THEN IF contains_serial_number(sn[2]) THEN None ELSE Some(commitment)
                ELSE None
      [] filter[1] = "Spent" ->
            LET t == tag(sk_tag(filter[2]), commitment)
            IN  IF IsOk(t)
                THEN IF contains_tag(t[2]) THEN Some(commitment) ELSE None
                ELSE None
      [] filter[1] = "Unspent" ->
            LET t == tag(sk_tag(filter[2]), commitment)
            IN  IF IsOk(t)
                THEN IF contains_tag(t[2]) THEN None ELSE Some(commitment)
                ELSE None

\* The control flow of the per-candidate closure: the filter's match first,
\* then is_owner, then decrypt; a stage that does not pass returns None.
ClosureNext_ignore_owner(stage, passed) ==
    CASE stage = "classify" -> IF passed THEN "owner" ELSE "exit"
      [] stage = "owner" -> "decrypt"
      [] stage = "decrypt" -> "exit"

ClosureNext_fall_through(stage, passed) ==
    CASE stage = "classify" -> "owner"
      [] stage = "owner" -> IF passed THEN "decrypt" ELSE "exit"
      [] stage = "decrypt" -> "exit"

ClosureNext(stage, passed) ==
    CASE stage = "classify" -> IF passed THEN "owner" ELSE "exit"
      [] stage = "owner" -> IF passed THEN "decrypt" ELSE "exit"
      [] stage = "decrypt" -> "exit"

\* What a stage of the closure computes for a candidate, and whether it passes.
StagePassed(stage, view_key, filter, candidate) ==
    CASE stage = "classify" -> Classify(filter, candidate[1]) # None
      [] stage = "owner" -> is_owner(candidate[2], to_address(view_key), view_key)
      [] stage = "decrypt" -> IsOk(decrypt(candidate[2], view_key))

\* The closure on one candidate: Some((commitment, record)) or None.
RECURSIVE RunClosure(_, _, _, _)
RunClosure(stage, view_key, filter, candidate) ==
    LET passed == StagePassed(stage, view_key, filter, candidate)
    IN  IF stage = "decrypt"
        THEN IF passed
             THEN Some(<<Classify(filter, candidate[1])[1], decrypt(candidate[2], view_key)[2]>>)
             ELSE None
        ELSE IF ClosureNext(stage, passed) = "exit" THEN None
        ELSE RunClosure(ClosureNext(stage, passed), view_key, filter, candidate)

RECURSIVE FlatMapClosure(_, _, _)
FlatMapClosure(candidates, view_key, filter) ==
    IF candidates = <<>> THEN <<>>
    ELSE RunClosure("classify", view_key, filter, Head(candidates))
         \o FlatMapClosure(Tail(candidates), view_key, filter)

\* The whole sequence get_output_records yields over the given transitions.
get_output_records_over(transitions, view_key, filter) ==
    FlatMapClosure(flat_map_outputs(transitions), view_key, filter)
get_output_records(view_key, filter) == get_output_records_over(history, view_key, filter)

\* The candidates of the ledger's history, and the one the scan is at.
Candidates == flat_map_outputs(history)
\* The candidate the closure is running on.
Current == scan.candidate

NoCall == [op |-> "none", height |-> 0, result |-> None]
IdleScan ==
    [status |-> "idle", view_key |-> None, address |-> None, filter |-> None,
     pos |-> 0, candidate |-> None, stage |-> "classify", matched |-> None,
     calls |-> <<>>, out |-> <<>>]

(***************************************************************************)
(* SpecLedger: any contents of the four stores, any height and cached      *)
(* hash; every accessor is called at every height.                         *)
(***************************************************************************)
InitLedger ==
    /\ previous_hashes \in [Heights -> Option(StoredHashes)]
    /\ headers \in {[h \in Heights |-> IF h \in S THEN Some(Header(h)) ELSE None] : S \in SUBSET Heights}
    /\ transactions \in {[h \in Heights |-> IF h \in S THEN Some(Transactions(h)) ELSE None] : S \in SUBSET Heights}
    /\ signatures \in {[h \in Heights |-> IF h \in S THEN Some(Signature(h)) ELSE None] : S \in SUBSET Heights}
    /\ current_height \in Heights
    /\ current_hash \in CachedHashes
    /\ ret = NoCall
    /\ history = <<>>
    /\ serial_numbers = {}
    /\ tags = {}
    /\ scan = IdleScan

\* One call per run: the accessors are pure reads, and a call changes nothing
\* a later call could see.
Returns(op, height, result) ==
    /\ ret = NoCall
    /\ ret' = [op |-> op, height |-> height, result |-> result]
    /\ UNCHANGED <<ledger_vars, world_vars, scan>>

CallGetBlock == \E height \in Heights : Returns("get_block", height, get_block(height))
CallGetHash == \E height \in Heights : Returns("get_hash", height, get_hash(height))
CallGetPreviousHash ==
    \E height \in Heights : Returns("get_previous_hash", height, get_previous_hash(height))
CallGetHeader == \E height \in Heights : Returns("get_header", height, get_header(height))
CallGetTransactions ==
    \E height \in Heights : Returns("get_transactions", height, get_transactions(height))
CallGetSignature ==
    \E height \in Heights : Returns("get_signature", height, get_signature(height))

NextLedger ==
    \/ CallGetBlock
    \/ CallGetHash
    \/ CallGetPreviousHash
    \/ CallGetHeader
    \/ CallGetTransactions
    \/ CallGetSignature

SpecLedger == InitLedger /\ [][NextLedger]_vars

(***************************************************************************)
(* SpecScan: any history of at most MaxTransitions transitions and         *)
(* MaxOutputs output records, any spend index; one scan, under any view    *)
(* key and filter, runs candidate by candidate.                            *)
(***************************************************************************)
RECURSIVE SumTo(_, _)
SumTo(sizes, n) == IF n = 0 THEN 0 ELSE sizes[n] + SumTo(sizes, n - 1)

\* The history that cuts the stream `flat` into transitions of the given sizes.
Split(flat, sizes) ==
    [t \in 1..Len(sizes) |->
        [outputs |-> SubSeq(flat, SumTo(sizes, t - 1) + 1, SumTo(sizes, t))]]

InitScan ==
    /\ previous_hashes = [h \in Heights |-> IF h = 0 THEN Some(GenesisBlock.previous_hash) ELSE None]
    /\ headers = [h \in Heights |-> IF h = 0 THEN Some(GenesisBlock.header) ELSE None]
    /\ transactions = [h \in Heights |-> IF h = 0 THEN Some(GenesisBlock.transactions) ELSE None]
    /\ signatures = [h \in Heights |-> IF h = 0 THEN Some(GenesisBlock.signature) ELSE None]
    /\ current_height = 0
    /\ current_hash = GenesisHash
    /\ ret = NoCall
    /\ \E n \in 0..MaxOutputs, t \in 0..MaxTransitions :
          \E flat \in [1..n -> Commitments \X Records], sizes \in [1..t -> 0..n] :
              /\ SumTo(sizes, t) = n
              /\ \A i, j \in 1..n : flat[i][1] = flat[j][1] => i = j
              /\ history = Split(flat, sizes)
    /\ serial_numbers \in SUBSET SerialNumberUniverse
    /\ tags \in SUBSET TagUniverse
    /\ scan = IdleScan

\* get_output_records(view_key, filter): the address is derived once, and the
\* iterator is returned with no candidate read yet.
StartScan ==
    /\ scan.status = "idle"
    /\ \E account \in Accounts, filter \in Filters :
          scan' = [status |-> "running", view_key |-> ViewKey(account),
                   address |-> to_address(ViewKey(account)), filter |-> filter,
                   pos |-> 0, candidate |-> None, stage |-> "classify",
                   matched |-> None, calls |-> <<>>, out |-> <<>>]
    /\ UNCHANGED <<ledger_vars, ret, world_vars>>

\* The next stage of the closure, or the next candidate after its exit.
Continue(stage, passed) ==
    IF ClosureNext(stage, passed) = "exit" THEN "classify" ELSE ClosureNext(stage, passed)

\* The iterator reads the next candidate and the closure matches the filter.
ClassifyCandidate ==
    /\ scan.status = "running"
    /\ scan.stage = "classify"
    /\ scan.pos < Len(Candidates)
    /\ LET candidate == Candidates[scan.pos + 1]
           matched == Classify(scan.filter, candidate[1])
       IN  scan' = [scan EXCEPT !.pos = scan.pos + 1,
                                !.candidate = candidate,
                                !.matched = matched,
                                !.calls = <<"classify">>,
                                !.stage = Continue("classify", matched # None)]
    /\ UNCHANGED <<ledger_vars, ret, world_vars>>

\* record.is_owner(&address, view_key)
CheckOwner ==
    /\ scan.status = "running"
    /\ scan.stage = "owner"
    /\ scan' = [scan EXCEPT !.calls = Append(scan.calls, "is_owner"),
                            !.stage = Continue("owner",
                                is_owner(Current[2], scan.address, scan.view_key))]
    /\ UNCHANGED <<ledger_vars, ret, world_vars>>

\* record.decrypt(view_key): the pair is yielded, or the failure is dropped.
DecryptRecord ==
    /\ scan.status = "running"
    /\ scan.stage = "decrypt"
    /\ LET plaintext == decrypt(Current[2], scan.view_key)
       IN  scan' = [scan EXCEPT !.calls = Append(scan.calls, "decrypt"),
                                !.stage = Continue("decrypt", IsOk(plaintext)),
                                !.out = IF IsOk(plaintext)
                                        THEN Append(scan.out, <<scan.matched[1], plaintext[2]>>)
                                        ELSE scan.out]
    /\ UNCHANGED <<ledger_vars, ret, world_vars>>

\* The stream of candidates is exhausted: the iterator returns None.
EndOfStream ==
    /\ scan.status = "running"
    /\ scan.stage = "classify"
    /\ scan.pos = Len(Candidates)
    /\ scan' = [scan EXCEPT !.status = "done"]
    /\ UNCHANGED <<ledger_vars, ret, world_vars>>

NextScan ==
    \/ StartScan
    \/ ClassifyCandidate
    \/ CheckOwner
    \/ DecryptRecord
    \/ EndOfStream

SpecScan == InitScan /\ [][NextScan]_vars

(***************************************************************************)
(* Claims on the accessors, checked under SpecLedger.                      *)
(***************************************************************************)
Present(map, height) == StoreGet(map, height) # None
Complete(height) ==
    /\ Present(previous_hashes, height)
    /\ Present(headers, height)
    /\ Present(transactions, height)
    /\ Present(signatures, height)
Called(op) == ret.op = op

\* Two results are the same outcome: the same value, or a failure of both.
SameOutcome(a, b) == IF IsOk(a) THEN a = b ELSE IsErr(b)

\* C1: hash-chain consistency.  For h < current_height, get_hash(h) and
\* get_previous_hash(h + 1) give the same outcome: the hash stored at key h + 1
\* when there is one, a failure of both when there is none; and
\* get_hash(current_height) returns the cached current_hash whatever the
\* previous-hash store holds.
C1_HashChain ==
    /\ Called("get_hash") /\ ret.height < current_height =>
          /\ SameOutcome(ret.result, get_previous_hash(ret.height + 1))
          /\ SameOutcome(get_previous_hash(ret.height + 1), ret.result)
          /\ IsOk(ret.result) <=> Present(previous_hashes, ret.height + 1)
          /\ IsOk(ret.result) => ret.result[2] = previous_hashes[ret.height + 1][1]
    /\ Called("get_previous_hash") /\ 0 < ret.height /\ ret.height <= current_height =>
          /\ SameOutcome(ret.result, get_hash(ret.height - 1))
          /\ SameOutcome(get_hash(ret.height - 1), ret.result)
    /\ Called("get_hash") /\ ret.height = current_height =>
          ret.result = Ok(current_hash)

\* get_hash(h) was called below the tip and returned the hash stored at h + 1,
\* in a ledger whose store also holds, at key current_height + 1, a hash other
\* than the cached one.
C1_Witness ==
    /\ Called("get_hash")
    /\ ret.height < current_height
    /\ Present(previous_hashes, ret.height + 1)
    /\ IsOk(ret.result)
    /\ Present(previous_hashes, current_height + 1)
    /\ previous_hashes[current_height + 1][1] # current_hash

\* C2: round-trip assembly.  At a height h <= current_height where all four
\* stores hold an entry, get_block(h) succeeds with a block whose four fields
\* are what get_previous_hash, get_header, get_transactions and get_signature
\* return at h; and get_block(0) on the freshly initialized ledger is the
\* genesis block.
C2_RoundTrip ==
    /\ Called("get_block") /\ ret.height <= current_height /\ Complete(ret.height) =>
          /\ IsOk(ret.result)
          /\ Ok(ret.result[2].previous_hash) = get_previous_hash(ret.height)
          /\ Ok(ret.result[2].header) = get_header(ret.height)
          /\ Ok(ret.result[2].transactions) = get_transactions(ret.height)
          /\ Ok(ret.result[2].signature) = get_signature(ret.height)
          /\ DOMAIN ret.result[2] = {"previous_hash", "header", "transactions", "signature"}
    /\ Called("get_block") /\ ret.height = 0 /\ FreshLedger =>
          ret.result = Ok(GenesisBlock)

\* get_block returned a block at the tip of a ledger whose cached hash differs
\* from the previous hash stored at the tip.
C2_Witness ==
    /\ Called("get_block")
    /\ ret.height = current_height
    /\ ret.height > 0
    /\ Complete(ret.height)
    /\ IsOk(ret.result)
    /\ current_hash # previous_hashes[ret.height][1]

\* The field get_block finds missing first, in the order in which it fetches.
FirstAbsent(height) ==
    IF ~Present(previous_hashes, height) THEN "Missing previous block hash for block"
    ELSE IF ~Present(headers, height) THEN "Missing block header for block"
    ELSE IF ~Present(transactions, height) THEN "Missing block transactions for block"
    ELSE "Missing signature for block"

\* C3: get_block(h) fails whenever one of the four stores has no entry at h,
\* for any h; its error names the first absent field (in the order previous
\* hash, header, transactions, signature) and the height h; no block, partial
\* or whole, is returned.
C3_MissingField ==
    Called("get_block") /\ ~Complete(ret.height) =>
        /\ IsErr(ret.result)
        /\ ret.result = Bail(FirstAbsent(ret.height), ret.height)

\* get_block failed above the tip on a height whose previous hash, header and
\* transactions are stored and whose signature is not.
C3_Witness ==
    /\ Called("get_block")
    /\ ret.height > current_height
    /\ Present(previous_hashes, ret.height)
    /\ Present(headers, ret.height)
    /\ Present(transactions, ret.height)
    /\ ~Present(signatures, ret.height)
    /\ IsErr(ret.result)

\* C4: for h > current_height, get_hash(h) fails with the height-range error,
\* whatever the previous-hash store holds, and does not return the cached hash.
C4_AboveTip ==
    Called("get_hash") /\ ret.height > current_height =>
        /\ ret.result = Bail("Block (given) is greater than the current height", ret.height)
        /\ ret.result # Ok(current_hash)

\* get_hash(h) failed above the tip although the store has entries at both
\* h and h + 1.
C4_Witness ==
    /\ Called("get_hash")
    /\ ret.height > current_height
    /\ Present(previous_hashes, ret.height)
    /\ Present(previous_hashes, ret.height + 1)
    /\ IsErr(ret.result)

(***************************************************************************)
(* Claims on get_output_records, checked under SpecScan.                   *)
(***************************************************************************)
Done == scan.status = "done"
Range(seq) == {seq[i] : i \in 1..Len(seq)}
FilterKind == scan.filter[1]
\* The private keys a filter speaks for: its own, or its graph key's.
PrivateKeysOf(filter) ==
    {PrivateKey(a) : a \in {b \in FilterAccounts :
        \/ filter[1] = "All"
        \/ filter[1] \in {"AllSpent", "AllUnspent"} /\ filter[2] = PrivateKey(b)
        \/ filter[1] \in {"Spent", "Unspent"} /\ filter[2] = graph_key_of(PrivateKey(b))}}
\* The result under a filter: what the finished scan yielded, for its own
\* filter; what get_output_records yields on the same ledger, for another.
ResultOf(filter) ==
    IF Done /\ scan.filter = filter THEN scan.out
    ELSE get_output_records(scan.view_key, filter)
Owned(record) == is_owner(record, to_address(scan.view_key), scan.view_key)
Sound(record) == IsOk(decrypt(record, scan.view_key))

\* The finished scan yielded exactly what the closure yields on the stream.
ScanAgrees == Done => scan.out = get_output_records(scan.view_key, scan.filter)

\* C5 as claimed: AllSpent(k) and AllUnspent(k) are disjoint and their union
\* is the result of All, for every history.
C5_Original ==
    Done /\ FilterKind \in {"All", "AllSpent", "AllUnspent"} =>
        \A k \in PrivateKeysOf(scan.filter) :
            LET spent == Range(ResultOf(<<"AllSpent", k>>))
                unspent == Range(ResultOf(<<"AllUnspent", k>>))
                all == Range(ResultOf(<<"All">>))
            IN  /\ spent \cap unspent = {}
                /\ spent \cup unspent = all

\* C5, amended: AllSpent(k) and AllUnspent(k) are disjoint, and their union is
\* the result of All less the pairs whose commitment has no serial number
\* under k (the derivation fails).
C5_Exclusivity ==
    Done /\ FilterKind \in {"All", "AllSpent", "AllUnspent"} =>
        \A k \in PrivateKeysOf(scan.filter) :
            LET spent == Range(ResultOf(<<"AllSpent", k>>))
                unspent == Range(ResultOf(<<"AllUnspent", k>>))
                all == Range(ResultOf(<<"All">>))
            IN  /\ spent \cap unspent = {}
                /\ spent \cup unspent = {p \in all : IsOk(serial_number(k, p[1]))}

\* An AllUnspent scan finished with a pair, on a history that also holds an
\* owned, decryptable record whose serial number cannot be derived.
C5_Witness ==
    /\ Done
    /\ FilterKind = "AllUnspent"
    /\ scan.out # <<>>
    /\ \E i \in 1..Len(Candidates) :
          /\ IsErr(serial_number(scan.filter[2], Candidates[i][1]))
          /\ Owned(Candidates[i][2])
          /\ Sound(Candidates[i][2])

\* C6: decryption gating.  Under each of the five filters no pair is yielded
\* for a candidate whose record is not owned by the address of the view key:
\* every pair comes from an owned candidate, and no commitment of a record
\* that is not owned is yielded.
C6_Gating ==
    scan.status # "idle" =>
        LET stream == Candidates
        IN  /\ \A i \in 1..Len(scan.out) :
                  \E j \in 1..scan.pos :
                      /\ scan.out[i][1] = stream[j][1]
                      /\ Ok(scan.out[i][2]) = decrypt(stream[j][2], scan.view_key)
                      /\ Owned(stream[j][2])
            /\ \A j \in 1..scan.pos :
                  ~Owned(stream[j][2]) =>
                      \A i \in 1..Len(scan.out) : scan.out[i][1] # stream[j][1]

\* A scan finished with a pair and without the pair of a candidate that is
\* not owned although it passed the filter and would decrypt.
C6_Witness ==
    /\ Done
    /\ FilterKind = "Unspent"
    /\ scan.out # <<>>
    /\ \E j \in 1..Len(Candidates) :
          /\ ~Owned(Candidates[j][2])
          /\ Sound(Candidates[j][2])
          /\ Classify(scan.filter, Candidates[j][1]) # None

\* The derivation the filter needs fails on the commitment.
DerivationFails(filter, commitment) ==
    \/ filter[1] \in {"AllSpent", "AllUnspent"} /\ IsErr(serial_number(filter[2], commitment))
    \/ filter[1] \in {"Spent", "Unspent"} /\ IsErr(tag(sk_tag(filter[2]), commitment))
\* decrypt is attempted on the candidate and fails.
DecryptFails(filter, candidate) ==
    /\ Classify(filter, candidate[1]) # None
    /\ Owned(candidate[2])
    /\ ~Sound(candidate[2])
RemoveAt(seq, j) == SubSeq(seq, 1, j - 1) \o SubSeq(seq, j + 1, Len(seq))
\* The history without output record j of transition t.
Without(t, j) == [history EXCEPT ![t].outputs = RemoveAt(@, j)]

\* C7: per-record error absorption.  A candidate on which the serial-number
\* derivation, the tag derivation or decrypt fails yields no pair; the scan
\* reads every candidate and ends normally; and it yields exactly what a scan
\* of the history without that candidate yields.
C7_Absorption ==
    /\ scan.status \in {"idle", "running", "done"}
    /\ Done =>
          /\ scan.pos = Len(Candidates)
          /\ \A t \in 1..Len(history) : \A j \in 1..Len(history[t].outputs) :
                LET candidate == history[t].outputs[j]
                IN  DerivationFails(scan.filter, candidate[1])
                        \/ DecryptFails(scan.filter, candidate) =>
                      /\ \A i \in 1..Len(scan.out) : scan.out[i][1] # candidate[1]
                      /\ scan.out = get_output_records_over(
                             Without(t, j), scan.view_key, scan.filter)

\* A scan finished with the pair of the last candidate, after a first
\* candidate, owned and decryptable, whose tag could not be derived.
C7_Witness ==
    /\ Done
    /\ FilterKind = "Unspent"
    /\ Len(Candidates) = 2
    /\ DerivationFails(scan.filter, Candidates[1][1])
    /\ Owned(Candidates[1][2])
    /\ Sound(Candidates[1][2])
    /\ Len(scan.out) = 1
    /\ scan.out[1][1] = Candidates[2][1]

\* The spend index holds the serial number of a commitment exactly when it
\* holds its tag, for every commitment of the history.
IndexConsistent(k) ==
    \A i \in 1..Len(Candidates) :
        LET sn == serial_number(k, Candidates[i][1])
            tg == tag(sk_tag(graph_key_of(k)), Candidates[i][1])
        IN  (IsOk(sn) /\ contains_serial_number(sn[2]))
                <=> (IsOk(tg) /\ contains_tag(tg[2]))
\* The same spend status under the other scheme.
Counterpart(filter, k) ==
    CASE filter[1] = "AllSpent" -> <<"Spent", graph_key_of(k)>>
      [] filter[1] = "AllUnspent" -> <<"Unspent", graph_key_of(k)>>
      [] filter[1] = "Spent" -> <<"AllSpent", k>>
      [] filter[1] = "Unspent" -> <<"AllUnspent", k>>
\* The pairs of a result whose commitment has both a serial number and a tag.
BothDerivable(seq, k) ==
    LET Test(p) == /\ IsOk(serial_number(k, p[1]))
                   /\ IsOk(tag(sk_tag(graph_key_of(k)), p[1]))
    IN  SelectSeq(seq, Test)

\* C8 as claimed: on a consistent spend index Spent(graph_key_of(k)) yields
\* what AllSpent(k) yields, and Unspent(graph_key_of(k)) what AllUnspent(k)
\* yields.
C8_Original ==
    Done /\ FilterKind # "All" =>
        \A k \in PrivateKeysOf(scan.filter) :
            IndexConsistent(k) =>
                scan.out = ResultOf(Counterpart(scan.filter, k))

\* C8, amended: on a consistent spend index the two schemes yield the same
\* pairs among the candidates whose commitment has both a serial number
\* under k and a tag under graph_key_of(k).
C8_SchemeIndependence ==
    Done /\ FilterKind # "All" =>
        \A k \in PrivateKeysOf(scan.filter) :
            IndexConsistent(k) =>
                BothDerivable(scan.out, k)
                    = BothDerivable(ResultOf(Counterpart(scan.filter, k)), k)

\* A Spent scan finished with a pair on a consistent index, on a history that
\* also holds a commitment with a tag and no serial number.
C8_Witness ==
    /\ Done
    /\ FilterKind = "Spent"
    /\ \A k \in PrivateKeysOf(scan.filter) : IndexConsistent(k)
    /\ scan.out # <<>>
    /\ \E i \in 1..Len(Candidates) :
          /\ Candidates[i][1] \in GroupHashFails
          /\ Owned(Candidates[i][2])
          /\ Sound(Candidates[i][2])

\* C9: classification precedes ownership and decryption.  On the candidate the
\* scan is at, the calls made so far are a prefix of classify, is_owner,
\* decrypt; is_owner is called only on a candidate the filter passed, decrypt
\* only after is_owner returned true; a candidate the filter excluded has seen
\* neither.
C9_ClassifyFirst ==
    scan.status # "idle" /\ scan.pos > 0 =>
        LET passes == Classify(scan.filter, Current[1]) # None
            excluded == DerivationFails(scan.filter, Current[1]) \/ ~passes
        IN  /\ Current = Candidates[scan.pos]
            /\ scan.calls \in {<<"classify">>, <<"classify", "is_owner">>,
                               <<"classify", "is_owner", "decrypt">>}
            /\ Len(scan.calls) >= 2 => passes
            /\ Len(scan.calls) = 3 => Owned(Current[2])
            /\ excluded => scan.calls = <<"classify">> /\ scan.stage = "classify"
            /\ scan.stage = "owner" => passes /\ scan.calls = <<"classify">>
            /\ scan.stage = "decrypt" =>
                  passes /\ Owned(Current[2]) /\ scan.calls = <<"classify", "is_owner">>

\* After a yielded pair, the scan dropped an owned, decryptable candidate on
\* its spend status alone, with classify the only call made on it.
C9_Witness ==
    /\ scan.status = "running"
    /\ scan.pos = 2
    /\ scan.out # <<>>
    /\ FilterKind = "AllSpent"
    /\ ~DerivationFails(scan.filter, Current[1])
    /\ Classify(scan.filter, Current[1]) = None
    /\ Owned(Current[2])
    /\ Sound(Current[2])
    /\ scan.calls = <<"classify">>

\* The places of the output records in storage, and their order.
Positions ==
    {p \in (1..Len(history)) \X (1..MaxOutputs) : p[2] <= Len(history[p[1]].outputs)}
Before(p, q) == p[1] < q[1] \/ (p[1] = q[1] /\ p[2] < q[2])

\* C10: order and multiplicity.  The yielded sequence is an order-preserving
\* subsequence of the output records in storage order (transitions in their
\* order, the records of a transition in theirs): each pair is the commitment
\* and the decrypted record of one candidate, and no candidate gives two.
C10_StorageOrder ==
    scan.status # "idle" =>
        /\ Len(scan.out) <= scan.pos
        /\ scan.out # <<>> => \E f \in [1..Len(scan.out) -> Positions] :
              /\ \A a, b \in 1..Len(scan.out) : a < b => Before(f[a], f[b])
              /\ \A a \in 1..Len(scan.out) :
                    LET candidate == history[f[a][1]].outputs[f[a][2]]
                    IN  /\ scan.out[a][1] = candidate[1]
                        /\ Ok(scan.out[a][2]) = decrypt(candidate[2], scan.view_key)

\* A scan finished having yielded, in this order, the pair of an output record
\* of the first transition and the pair of one of the second.
C10_Witness ==
    /\ Done
    /\ Len(history) = 2
    /\ Len(history[1].outputs) = 1
    /\ Len(history[2].outputs) = 1
    /\ Len(scan.out) = 2
    /\ scan.out[1][1] = history[1].outputs[1][1]
    /\ scan.out[2][1] = history[2].outputs[1][1]

====
